---- MODULE Spec2Model ----
(***************************************************************************)
(* Model of the hyperbolic-PDE solver: the four step schemes of            *)
(* schemes.py (Lax-Friedrichs and Lax-Wendroff, difference and volume      *)
(* forms) applied repeatedly to a state array, and the RiemannProblem      *)
(* object of tests.py (initSigma, isShock, solve and the closure u(t,x)    *)
(* that solve returns).                                                    *)
(*                                                                         *)
(* Numbers are exact rationals <<n, d>> in lowest terms with d > 0.  All   *)
(* inputs drawn below are small dyadic numbers, for which Python's float   *)
(* arithmetic is exact, so the rational result is the float result.        *)
(* Scalars (dt, dx, ul, ur, x0, t, x) are Python numbers: dividing by a    *)
(* zero scalar raises ZeroDivisionError.                                   *)
(***************************************************************************)
EXTENDS Integers, Sequences, FiniteSets, TLC

VARIABLES
    u,        \* schemes: the current state array
    prev,     \* schemes: the array handed to the last scheme call
    call,     \* schemes: the last call [sch, dt, dx, fx], or NoCall
    status,   \* schemes: "none" or the exception the last call raised
    steps,    \* schemes: number of scheme calls that returned
    n0,       \* schemes: length of the initial array
    ul,       \* RiemannProblem.ul
    ur,       \* RiemannProblem.ur
    x0,       \* RiemannProblem.x0
    sigma,    \* RiemannProblem.sigma (None until initSigma stores it)
    sol,      \* the closure returned by the last solve, or NoSol
    last,     \* RiemannProblem: the last method call [op, fx]
    ret,      \* RiemannProblem: what the last method call returned
    err,      \* RiemannProblem: "none" or the exception the last call raised
    exact,    \* the last getExactSolution call and the kind of result it gave
    obs       \* the last evaluation [t, x, val] of that exact solution

vars == <<u, prev, call, status, steps, n0, ul, ur, x0, sigma, sol, last, ret, err,
         exact, obs>>

schemeVars == <<u, prev, call, status, steps, n0>>

riemannVars == <<ul, ur, x0, sigma, sol, last, ret, err>>

exactVars == <<exact, obs>>

----------------------------------------------------------------------------
(* Bounds *)

MaxLen == 5

\* the largest k with MaxLen >= 2k + 1: the number of calls the longest array
\* supports before its stencil runs out
MaxSteps == (MaxLen - 1) \div 2

MaxVal == 3

MaxX == 3

MaxT == 2

----------------------------------------------------------------------------
(* Exact arithmetic *)

Abs(n) == IF n < 0 THEN -n ELSE n

RECURSIVE Gcd(_, _)
Gcd(a, b) == IF b = 0 THEN a ELSE Gcd(b, a % b)

Rat(n, d) ==
    LET s == IF d < 0 THEN -1 ELSE 1
        g == Gcd(Abs(n), Abs(d))
    IN  <<(s * n) \div g, (s * d) \div g>>

R(n) == <<n, 1>>

Half == <<1, 2>>

\* a[2] and b[2] brought to their least common multiple
Lcm(a, b) == (a \div Gcd(a, b)) * b

RAdd(a, b) ==
    LET l == Lcm(a[2], b[2])
    IN  Rat(a[1] * (l \div a[2]) + b[1] * (l \div b[2]), l)

RSub(a, b) ==
    LET l == Lcm(a[2], b[2])
    IN  Rat(a[1] * (l \div a[2]) - b[1] * (l \div b[2]), l)

RMul(a, b) ==
    LET g1 == Gcd(Abs(a[1]), b[2])
        g2 == Gcd(Abs(b[1]), a[2])
    IN  Rat((a[1] \div g1) * (b[1] \div g2), (a[2] \div g2) * (b[2] \div g1))

\* a / b for b # 0 (every caller raises ZeroDivisionError first when b = 0)
RDiv(a, b) == RMul(a, IF b[1] < 0 THEN <<-b[2], -b[1]>> ELSE <<b[2], b[1]>>)

RLt(a, b) ==
    LET l == Lcm(a[2], b[2])
    IN  a[1] * (l \div a[2]) < b[1] * (l \div b[2])

RGt(a, b) == RLt(b, a)

IsZero(a) == a[1] = 0

\* bool * number, as in (ratio < sigma) * ul
BoolMul(b, v) == IF b THEN v ELSE R(0)

----------------------------------------------------------------------------
(* numpy arrays: slices and element-wise arithmetic *)

Min(a, b) == IF a < b THEN a ELSE b

Max(a, b) == IF a > b THEN a ELSE b

\* a slice bound i normalised against length n: negative counts from the end,
\* and the result is clipped to 0..n
NormIdx(i, n) == IF i < 0 THEN Max(i + n, 0) ELSE Min(i, n)

\* a[lo:hi], 0-based, hi exclusive
Slice(a, lo, hi) ==
    LET s == NormIdx(lo, Len(a))
        e == NormIdx(hi, Len(a))
    IN  IF e <= s THEN <<>> ELSE SubSeq(a, s + 1, e)

\* a[k:]
From(a, k) == Slice(a, k, Len(a))

\* a[:k]
Until(a, k) == Slice(a, 0, k)

\* a[1:-1]
Inner(a) == Slice(a, 1, -1)

\* element-wise operations on arrays of one shape (the schemes only combine
\* slices of equal length; an index outside either operand is an evaluation
\* error, not a silent truncation)
Shape(a, b) == 1..Max(Len(a), Len(b))

VAdd(a, b) == <<>> \o [i \in Shape(a, b) |-> RAdd(a[i], b[i])]

VSub(a, b) == <<>> \o [i \in Shape(a, b) |-> RSub(a[i], b[i])]

VMul(a, b) == <<>> \o [i \in Shape(a, b) |-> RMul(a[i], b[i])]

\* scalar * array
SMul(c, a) == <<>> \o [i \in 1..Len(a) |-> RMul(c, a[i])]

----------------------------------------------------------------------------
(* Flux functions (psl.Function: a callable and its data dict) *)

\* f(u) = scalar * u with data {"prime", "isLinear"}; f(u) = u*u/2 with data
\* {"prime": flux_identity}; and a Function built with no data (data = {})
Fluxes == {"linear5_2", "square_half", "square_half_nodata"}

LinearScalar(fx) == IF fx = "linear1" THEN R(1) ELSE <<5, 2>>

IsLinearFlux(fx) == fx \in {"linear1", "linear5_2"}

\* "prime" in flux.data
HasPrime(fx) == fx # "square_half_nodata"

\* flux(x) on a scalar
FluxAt(fx, x) ==
    IF IsLinearFlux(fx) THEN RMul(x, LinearScalar(fx))
    ELSE RMul(RMul(x, x), Half)

\* flux.data["prime"](x) on a scalar
PrimeAt(fx, x) ==
    IF IsLinearFlux(fx) THEN RMul(R(1), LinearScalar(fx))
    ELSE RMul(x, R(1))

\* flux(a) on an array
Flux(fx, a) == <<>> \o [i \in 1..Len(a) |-> FluxAt(fx, a[i])]

\* fprime(a) on an array
Prime(fx, a) == <<>> \o [i \in 1..Len(a) |-> PrimeAt(fx, a[i])]

----------------------------------------------------------------------------
(* The step schemes.  Each returns [err, out]: the exception raised       *)
(* ("none" when the call returns) and the array returned.                 *)

Return(a) == [err |-> "none", out |-> a]

Raise(e) == [err |-> e, out |-> <<>>]

\* faulty variant: the centered stencil narrowed to two neighbouring points
LF_FD_compact(a, dt, dx, fx) ==
    IF IsZero(dx) THEN Raise("ZeroDivisionError")
    ELSE
    LET dt_dx == RDiv(dt, dx)
    IN  Return(VSub(SMul(Half, VAdd(From(a, 1), Until(a, -1))),
                    SMul(RMul(Half, dt_dx),
                         VSub(Flux(fx, From(a, 1)), Flux(fx, Until(a, -1))))))

LF_FD_centered(a, dt, dx, fx) ==
    IF IsZero(dx) THEN Raise("ZeroDivisionError")
    ELSE
    LET dt_dx == RDiv(dt, dx)
    IN  Return(VSub(SMul(Half, VAdd(From(a, 2), Until(a, -2))),
                    SMul(RMul(Half, dt_dx),
                         VSub(Flux(fx, From(a, 2)), Flux(fx, Until(a, -2))))))

LF_FD(a, dt, dx, fx) == LF_FD_centered(a, dt, dx, fx)

\* faulty variant: dt/dx used in the interface flux where dx/dt belongs
LF_FV_samefactor(a, dt, dx, fx) ==
    IF IsZero(dx) \/ IsZero(dt) THEN Raise("ZeroDivisionError")
    ELSE
    LET dt_dx   == RDiv(dt, dx)
        fluxes0 == VSub(VAdd(Flux(fx, Until(a, -1)), Flux(fx, From(a, 1))),
                        SMul(dt_dx, VSub(From(a, 1), Until(a, -1))))
        fluxes  == SMul(Half, fluxes0)
    IN  Return(VSub(Inner(a),
                    SMul(dt_dx, VSub(From(fluxes, 1), Until(fluxes, -1)))))

LF_FV(a, dt, dx, fx) ==
    IF IsZero(dx) \/ IsZero(dt) THEN Raise("ZeroDivisionError")
    ELSE
    LET dt_dx   == RDiv(dt, dx)
        dx_dt   == RDiv(dx, dt)
        fluxes0 == VSub(VAdd(Flux(fx, Until(a, -1)), Flux(fx, From(a, 1))),
                        SMul(dx_dt, VSub(From(a, 1), Until(a, -1))))
        fluxes  == SMul(Half, fluxes0)
    IN  Return(VSub(Inner(a),
                    SMul(dt_dx, VSub(From(fluxes, 1), Until(fluxes, -1)))))

\* faulty variant: the local speed taken at the average of the two outer
\* stencil points instead of at the middle point
LW_FD_outeravg(a, dt, dx, fx) ==
    IF ~HasPrime(fx) THEN Raise("KeyError")
    ELSE IF IsZero(dx) THEN Raise("ZeroDivisionError")
    ELSE
    LET dt_dx  == RDiv(dt, dx)
        dt_dx2 == RMul(dt_dx, dt_dx)
        aa     == Prime(fx, SMul(Half, VAdd(From(a, 2), Until(a, -2))))
    IN  Return(VAdd(VSub(Inner(a),
                         SMul(RMul(Half, dt_dx),
                              VSub(Flux(fx, From(a, 2)), Flux(fx, Until(a, -2))))),
                    VMul(SMul(RMul(Half, dt_dx2), aa),
                         VAdd(VSub(Flux(fx, From(a, 2)),
                                   SMul(R(2), Flux(fx, Inner(a)))),
                              Flux(fx, Until(a, -2))))))

\* faulty variant: the curvature term without the factor 2 on its middle point
LW_FD_nodouble(a, dt, dx, fx) ==
    IF ~HasPrime(fx) THEN Raise("KeyError")
    ELSE IF IsZero(dx) THEN Raise("ZeroDivisionError")
    ELSE
    LET dt_dx  == RDiv(dt, dx)
        dt_dx2 == RMul(dt_dx, dt_dx)
        aa     == Prime(fx, a)
    IN  Return(VAdd(VSub(Inner(a),
                         SMul(RMul(Half, dt_dx),
                              VSub(Flux(fx, From(a, 2)), Flux(fx, Until(a, -2))))),
                    VMul(SMul(RMul(Half, dt_dx2), Inner(aa)),
                         VAdd(VSub(Flux(fx, From(a, 2)), Flux(fx, Inner(a))),
                              Flux(fx, Until(a, -2))))))

LW_FD(a, dt, dx, fx) ==
    IF ~HasPrime(fx) THEN Raise("KeyError")
    ELSE IF IsZero(dx) THEN Raise("ZeroDivisionError")
    ELSE
    LET dt_dx  == RDiv(dt, dx)
        dt_dx2 == RMul(dt_dx, dt_dx)
        aa     == Prime(fx, a)
    IN  Return(VAdd(VSub(Inner(a),
                         SMul(RMul(Half, dt_dx),
                              VSub(Flux(fx, From(a, 2)), Flux(fx, Until(a, -2))))),
                    VMul(SMul(RMul(Half, dt_dx2), Inner(aa)),
                         VAdd(VSub(Flux(fx, From(a, 2)),
                                   SMul(R(2), Flux(fx, Inner(a)))),
                              Flux(fx, Until(a, -2))))))

\* faulty variant: the interface flux without its second-order correction
LW_FV_nocorrection(a, dt, dx, fx) ==
    IF ~HasPrime(fx) THEN Raise("KeyError")
    ELSE IF IsZero(dx) THEN Raise("ZeroDivisionError")
    ELSE
    LET dt_dx   == RDiv(dt, dx)
        fluxes0 == VAdd(Flux(fx, Until(a, -1)), Flux(fx, From(a, 1)))
        fluxes  == SMul(Half, fluxes0)
    IN  Return(VSub(Inner(a),
                    SMul(dt_dx, VSub(From(fluxes, 1), Until(fluxes, -1)))))

\* faulty variant: dt / dx computed before the derivative is looked up
LW_FV_latelookup(a, dt, dx, fx) ==
    IF IsZero(dx) THEN Raise("ZeroDivisionError")
    ELSE IF ~HasPrime(fx) THEN Raise("KeyError")
    ELSE
    LET dt_dx   == RDiv(dt, dx)
        aa      == Prime(fx, SMul(Half, VAdd(From(a, 1), Until(a, -1))))
        fluxes0 == VSub(VAdd(Flux(fx, Until(a, -1)), Flux(fx, From(a, 1))),
                        VMul(SMul(dt_dx, aa),
                             VSub(Flux(fx, From(a, 1)), Flux(fx, Until(a, -1)))))
        fluxes  == SMul(Half, fluxes0)
    IN  Return(VSub(Inner(a),
                    SMul(dt_dx, VSub(From(fluxes, 1), Until(fluxes, -1)))))

LW_FV(a, dt, dx, fx) ==
    IF ~HasPrime(fx) THEN Raise("KeyError")
    ELSE IF IsZero(dx) THEN Raise("ZeroDivisionError")
    ELSE
    LET dt_dx   == RDiv(dt, dx)
        aa      == Prime(fx, SMul(Half, VAdd(From(a, 1), Until(a, -1))))
        fluxes0 == VSub(VAdd(Flux(fx, Until(a, -1)), Flux(fx, From(a, 1))),
                        VMul(SMul(dt_dx, aa),
                             VSub(Flux(fx, From(a, 1)), Flux(fx, Until(a, -1)))))
        fluxes  == SMul(Half, fluxes0)
    IN  Return(VSub(Inner(a),
                    SMul(dt_dx, VSub(From(fluxes, 1), Until(fluxes, -1)))))

\* the registry methods[family][form]
Schemes == {"LF_FD", "LF_FV", "LW_FD", "LW_FV"}

methods(sch, a, dt, dx, fx) ==
    CASE sch = "LF_FD" -> LF_FD(a, dt, dx, fx)
      [] sch = "LF_FV" -> LF_FV(a, dt, dx, fx)
      [] sch = "LW_FD" -> LW_FD(a, dt, dx, fx)
      [] sch = "LW_FV" -> LW_FV(a, dt, dx, fx)

----------------------------------------------------------------------------
(* Stepping a state array *)

ArrayVals == {R(1), R(2)}

Arrays == UNION {[1..n -> ArrayVals] : n \in 0..MaxLen}

DTs == {R(0), R(1)}

DXs == {R(0), R(2)}

NoCall == [sch |-> "none", dt |-> R(0), dx |-> R(0), fx |-> "none"]

\* Python's None (no rational has denominator 0)
None == <<0, 0>>

NoSol == [branch |-> "none", fprime |-> "none"]

NoOp == [op |-> "__init__", fx |-> "none"]

\* no RiemannProblem constructed yet
NoObject == [op |-> "none", fx |-> "none"]

NoExact == [kind |-> "none", init |-> "none", fx |-> "none"]

NoObs == [t |-> R(0), x |-> R(0), val |-> Raise("none")]

InitSchemes ==
    /\ u \in Arrays
    /\ prev = <<>>
    /\ call = NoCall
    /\ status = "none"
    /\ steps = 0
    /\ n0 = Len(u)
    /\ ul = R(1) /\ ur = R(0) /\ x0 = R(0)
    /\ sigma = None
    /\ sol = NoSol
    /\ last = NoOp
    /\ ret = "none"
    /\ err = "none"
    /\ exact = NoExact
    /\ obs = NoObs

\* One call u = scheme(u, dt, dx, flux) of a driver that stops at the first
\* exception.
Step(sch, dt, dx, fx) ==
    /\ status = "none"
    /\ steps < MaxSteps
    /\ \E r \in {methods(sch, u, dt, dx, fx)} :
           /\ prev' = u
           /\ call' = [sch |-> sch, dt |-> dt, dx |-> dx, fx |-> fx]
           /\ status' = r.err
           /\ u' = IF r.err = "none" THEN r.out ELSE u
           /\ steps' = IF r.err = "none" THEN steps + 1 ELSE steps
    /\ UNCHANGED <<n0, riemannVars, exactVars>>

NextSchemes ==
    \E sch \in Schemes, dt \in DTs, dx \in DXs, fx \in Fluxes : Step(sch, dt, dx, fx)

SpecSchemes == InitSchemes /\ [][NextSchemes]_vars

----------------------------------------------------------------------------
(* RiemannProblem *)

RVals == {R(n) : n \in 0..MaxVal}

X0s == {R(0), R(1)}

\* faulty variant: the zero divisor guarded, a speed of 0 returned for ul == ur
getShockSpeed_guarded(fx, l, r) ==
    IF IsZero(RSub(r, l)) THEN Return(R(0))
    ELSE Return(RDiv(RSub(FluxAt(fx, r), FluxAt(fx, l)), RSub(r, l)))

\* faulty variant: the flux difference taken the other way round
getShockSpeed_swapped(fx, l, r) ==
    IF IsZero(RSub(r, l)) THEN Raise("ZeroDivisionError")
    ELSE Return(RDiv(RSub(FluxAt(fx, l), FluxAt(fx, r)), RSub(r, l)))

\* getShockSpeed(f): the Rankine-Hugoniot quotient of two Python numbers
getShockSpeed(fx, l, r) ==
    IF IsZero(RSub(r, l)) THEN Raise("ZeroDivisionError")
    ELSE Return(RDiv(RSub(FluxAt(fx, r), FluxAt(fx, l)), RSub(r, l)))

\* faulty variant: the entropy inequalities made non-strict
isShock_nonstrict(fp, l, r, sg) ==
    IF ~RGt(l, r) THEN Return(FALSE)
    ELSE IF ~HasPrime(fp) \/ sg = None THEN Raise("TypeError")
    ELSE IF RLt(PrimeAt(fp, l), sg) THEN Return(FALSE)
    ELSE Return(~RGt(PrimeAt(fp, r), sg))

\* isShock(fprime), fprime = flux.data.get("prime") of flux fp: the operands of
\* "and" are evaluated left to right and only as far as needed; calling None or
\* comparing a number with None raises TypeError
isShock(fp, l, r, sg) ==
    IF ~RGt(l, r) THEN Return(FALSE)
    ELSE IF ~HasPrime(fp) \/ sg = None THEN Raise("TypeError")
    ELSE IF ~RGt(PrimeAt(fp, l), sg) THEN Return(FALSE)
    ELSE Return(RLt(PrimeAt(fp, r), sg))

\* The closure u(t, x) that solve returned, called while the object holds
\* (l, r, x, sg): the closure keeps a reference to self and reads the fields
\* when it is called.
USol(s, l, r, x, sg, t, xx) ==
    IF IsZero(t) THEN Raise("ZeroDivisionError")
    ELSE
    LET ratio == RDiv(RSub(xx, x), t)
    IN  IF s.branch = "shock"
        THEN IF sg = None THEN Raise("TypeError")
             ELSE Return(RAdd(BoolMul(RLt(ratio, sg), l),
                              BoolMul(RGt(ratio, sg), r)))
        ELSE IF ~HasPrime(s.fprime) THEN Raise("TypeError")
             ELSE Return(RAdd(RAdd(BoolMul(RLt(ratio, PrimeAt(s.fprime, l)), l), R(0)),
                              BoolMul(RGt(ratio, PrimeAt(s.fprime, r)), r)))

InitRiemann ==
    /\ ul \in RVals
    /\ ur \in RVals
    /\ x0 \in X0s
    /\ sigma = None
    /\ sol = NoSol
    /\ last = NoOp
    /\ ret = "self"
    /\ err = "none"
    /\ u = <<>>
    /\ prev = <<>>
    /\ call = NoCall
    /\ status = "none"
    /\ steps = 0
    /\ n0 = 0
    /\ exact = NoExact
    /\ obs = NoObs

\* rp.initSigma(f)
initSigma(fx) ==
    /\ \E r \in {getShockSpeed(fx, ul, ur)} :
           /\ sigma' = IF r.err = "none" THEN r.out ELSE sigma
           /\ ret' = IF r.err = "none" THEN "self" ELSE "raised"
           /\ err' = r.err
    /\ last' = [op |-> "initSigma", fx |-> fx]
    /\ UNCHANGED <<ul, ur, x0, sol, schemeVars, exactVars>>

\* exactSolution = rp.solve(flux, flux.data.get("prime"))
solve(fx) ==
    /\ \E c \in {isShock(fx, ul, ur, sigma)} :
           /\ sol' = IF c.err # "none" THEN sol
                      ELSE [branch |-> IF c.out THEN "shock" ELSE "rarefaction",
                            fprime |-> fx]
           /\ ret' = IF c.err = "none" THEN "u" ELSE "raised"
           /\ err' = c.err
    /\ last' = [op |-> "solve", fx |-> fx]
    /\ UNCHANGED <<ul, ur, x0, sigma, schemeVars, exactVars>>

NextRiemann ==
    \/ \E fx \in Fluxes : initSigma(fx)
    \/ \E fx \in Fluxes : solve(fx)

SpecRiemann == InitRiemann /\ [][NextRiemann]_vars

----------------------------------------------------------------------------
(* getExactSolution *)

\* the fluxes of the test cases: f(u) = u, f(u) = 5u/2, f(u) = u^2/2, and a
\* Function without data
ExactFluxes == Fluxes \cup {"linear1"}

\* flux.data.get("isQuadratic")
IsQuadratic(fx) == fx = "square_half"

\* the initial conditions of the test cases (the wavelet exp(-x^2) sin(pi x)
\* is left out: it has no rational values)
Initials == {"ind23", "ind01", "step10_0", "sawTooth01", "triangle012"}

\* initial.data.get("canBeRiemannProblem")
CanBeRiemann(init) == init = "step10_0"

RLe(a, b) == ~RLt(b, a)

\* initial(x)
InitialAt(init, x) ==
    CASE init = "ind23" -> IF RLe(R(2), x) /\ RLe(x, R(3)) THEN R(1) ELSE R(0)
      [] init = "ind01" -> IF RLe(R(0), x) /\ RLe(x, R(1)) THEN R(1) ELSE R(0)
      [] init = "step10_0" -> IF RLt(x, R(0)) THEN R(1) ELSE R(0)
      [] init = "sawTooth01" ->
            IF RLe(R(0), x) /\ RLe(x, R(1))
            THEN RDiv(RSub(x, R(0)), RSub(R(1), R(0))) ELSE R(0)
      [] init = "triangle012" ->
            IF RLe(R(0), x) /\ RLe(x, R(1))
            THEN RDiv(RSub(x, R(0)), RSub(R(1), R(0)))
            ELSE IF RGt(x, R(1)) /\ RLe(x, R(2))
                 THEN RDiv(RSub(R(2), x), RSub(R(2), R(1))) ELSE R(0)

\* faulty variant: the characteristic followed the wrong way
exactSolution_plus(init, fx, t, x) ==
    LET scalar == FluxAt(fx, R(1))
    IN  Return(InitialAt(init, RAdd(x, RMul(scalar, t))))

\* the closure exactSolution(t, x) of the linear branch
exactSolution(init, fx, t, x) ==
    LET scalar == FluxAt(fx, R(1))
    IN  Return(InitialAt(init, RSub(x, RMul(scalar, t))))

InitExact ==
    /\ exact = NoExact
    /\ obs = NoObs
    /\ ul = R(0) /\ ur = R(0) /\ x0 = R(0)
    /\ sigma = None
    /\ sol = NoSol
    /\ last = NoObject
    /\ ret = "none"
    /\ err = "none"
    /\ u = <<>>
    /\ prev = <<>>
    /\ call = NoCall
    /\ status = "none"
    /\ steps = 0
    /\ n0 = 0

\* getExactSolution(initial, flux)
getExactSolution(init, fx) ==
    /\ obs' = NoObs
    /\ IF IsLinearFlux(fx)
       THEN /\ exact' = [kind |-> "linear", init |-> init, fx |-> fx]
            /\ UNCHANGED riemannVars
       ELSE IF CanBeRiemann(init) /\ IsQuadratic(fx)
       THEN \* rp = RiemannProblem(ul, ur, x0).initSigma(flux); rp.solve(...)
            \E r \in {getShockSpeed(fx, R(1), R(0))} :
            \E c \in {isShock(fx, R(1), R(0), IF r.err = "none" THEN r.out ELSE None)} :
                /\ ul' = R(1) /\ ur' = R(0) /\ x0' = R(0)
                /\ sigma' = IF r.err = "none" THEN r.out ELSE None
                /\ last' = IF r.err = "none" THEN [op |-> "solve", fx |-> fx]
                           ELSE [op |-> "initSigma", fx |-> fx]
                /\ err' = IF r.err # "none" THEN r.err ELSE c.err
                /\ ret' = IF err' = "none" THEN "u" ELSE "raised"
                /\ sol' = IF err' # "none" THEN NoSol
                          ELSE [branch |-> IF c.out THEN "shock" ELSE "rarefaction",
                                fprime |-> fx]
                /\ exact' = [kind |-> IF err' = "none" THEN "riemann" ELSE "raised",
                             init |-> init, fx |-> fx]
       ELSE /\ exact' = [kind |-> "None", init |-> init, fx |-> fx]
            /\ UNCHANGED riemannVars
    /\ UNCHANGED schemeVars

\* exact(t, x) on the Function that getExactSolution returned
evalExact(t, x) ==
    /\ exact.kind \in {"linear", "riemann"}
    /\ obs' = [t |-> t, x |-> x,
               val |-> IF exact.kind = "linear"
                       THEN exactSolution(exact.init, exact.fx, t, x)
                       ELSE USol(sol, ul, ur, x0, sigma, t, x)]
    /\ UNCHANGED <<exact, riemannVars, schemeVars>>

EvalTs == {R(t) : t \in 0..MaxT}

EvalXs == {R(x) : x \in -1..MaxX}

NextExact ==
    \/ \E init \in Initials, fx \in ExactFluxes : getExactSolution(init, fx)
    \/ \E t \in EvalTs, x \in EvalXs : evalExact(t, x)

SpecExact == InitExact /\ [][NextExact]_vars

----------------------------------------------------------------------------
(* Properties of the step schemes (checked under SpecSchemes) *)

Pos(a) == a[1] > 0

Called == call.sch \in Schemes

IsLW == call.sch \in {"LW_FD", "LW_FV"}

IsConst(a) == \A i \in 1..Len(a) : a[i] = a[1]

\* C1: a scheme called with len(u) >= 3 and positive dt, dx returns an array of
\* exactly len(u) - 2 elements (it fails to return only for a Lax-Wendroff
\* scheme given a flux without derivative); hence after k calls that returned,
\* starting from an array of length n0 >= 2k + 1, the array has n0 - 2k elements.
C1_OutputLength ==
    /\ (Called /\ Len(prev) >= 3 /\ Pos(call.dt) /\ Pos(call.dx))
          => /\ status = "none" => Len(u) = Len(prev) - 2
             /\ status # "none" => (IsLW /\ ~HasPrime(call.fx))
    /\ n0 >= 2 * steps + 1 => Len(u) = n0 - 2 * steps

C1_Witness ==
    /\ steps = 2 /\ n0 >= 5 /\ status = "none"
    /\ Pos(call.dt) /\ Pos(call.dx) /\ Len(prev) >= 3
    /\ Len(u) = n0 - 4

\* C2: a scheme called with an array of fewer than 3 elements raises and
\* returns no array (stated for calls that are otherwise valid: positive dt and
\* dx, and a flux with a derivative for Lax-Wendroff).
C2_ShortArrayFails ==
    (/\ Called /\ Len(prev) < 3
     /\ Pos(call.dt) /\ Pos(call.dx)
     /\ IsLW => HasPrime(call.fx))
       => status # "none"

\* C3: a scheme called with dt == 0 or dx == 0 raises and returns no array
\* (stated for calls that are otherwise valid: len(u) >= 3, and a flux with a
\* derivative for Lax-Wendroff).
C3_DegenerateDiscretizationFails ==
    (/\ Called /\ (IsZero(call.dt) \/ IsZero(call.dx))
     /\ Len(prev) >= 3
     /\ IsLW => HasPrime(call.fx))
       => status # "none"

\* C4: each scheme applied to a constant array of length >= 3, with positive
\* dt and dx and (for Lax-Wendroff) a flux that has a derivative, returns an
\* array whose every entry is that constant.
C4_ConstantPreserved ==
    (/\ Called /\ Len(prev) >= 3 /\ IsConst(prev)
     /\ Pos(call.dt) /\ Pos(call.dx)
     /\ IsLW => HasPrime(call.fx))
       => /\ status = "none"
          /\ Len(u) >= 1
          /\ \A i \in 1..Len(u) : u[i] = prev[1]

C4_Witness ==
    /\ call.sch = "LW_FD" /\ call.fx = "square_half"
    /\ Len(prev) >= 3 /\ IsConst(prev) /\ prev[1] = R(2)
    /\ Pos(call.dt) /\ Pos(call.dx)
    /\ status = "none" /\ u = <<R(2)>>

----------------------------------------------------------------------------
(* Properties of RiemannProblem (checked under SpecRiemann) *)

\* sample points (t, x) with t > 0
Ts == {R(t) : t \in 1..MaxT}

Xs == {R(x) : x \in -1..MaxX}

\* C5: a solution function exists only once initSigma has stored sigma.
C5_SolveNeedsSigma ==
    sol # NoSol => sigma # None

\* C6: the value of a solution function already returned, at every t > 0 and
\* x, is not changed by any later operation on the RiemannProblem.
C6_SolutionIsPure ==
    [][sol # NoSol =>
         \A t \in Ts, xx \in Xs :
             USol(sol, ul', ur', x0', sigma', t, xx) = USol(sol, ul, ur, x0, sigma, t, xx)]_vars

\* C7: initSigma on a problem with ul == ur raises (Python's ZeroDivisionError
\* is the DegenerateJump failure); sigma is not stored and stays unset, and ul,
\* ur, x0 are unchanged.
C7_DegenerateJump ==
    [][(last'.op = "initSigma" /\ ul = ur) =>
         /\ err' = "ZeroDivisionError"
         /\ ret' = "raised"
         /\ sigma = None /\ sigma' = None
         /\ ul' = ul /\ ur' = ur /\ x0' = x0]_vars

C7_Witness ==
    /\ last.op = "initSigma" /\ ul = ur
    /\ err = "ZeroDivisionError" /\ ret = "raised" /\ sigma = None

\* C8: for ul # ur, initSigma(f) stores sigma = (f(ur) - f(ul)) / (ur - ul),
\* returns the object itself and leaves ul, ur, x0 unchanged; for f(u) = u^2/2
\* that is (ul + ur) / 2, and 1/2 for ul = 1, ur = 0.
C8_RankineHugoniot ==
    [][(last'.op = "initSigma" /\ ul # ur) =>
         /\ err' = "none"
         /\ ret' = "self"
         /\ ul' = ul /\ ur' = ur /\ x0' = x0
         /\ RMul(sigma', RSub(ur, ul)) = RSub(FluxAt(last'.fx, ur), FluxAt(last'.fx, ul))
         /\ ~IsLinearFlux(last'.fx) => RMul(R(2), sigma') = RAdd(ul, ur)
         /\ (~IsLinearFlux(last'.fx) /\ ul = R(1) /\ ur = R(0)) => sigma' = Half]_vars

C8_Witness ==
    /\ last = [op |-> "initSigma", fx |-> "square_half"]
    /\ ul = R(1) /\ ur = R(0)
    /\ sigma = Half /\ ret = "self" /\ err = "none"

\* C9: after initSigma, solve with a derivative f' classifies the jump as a
\* shock iff ul > ur and f'(ul) > sigma and f'(ur) < sigma, and takes the
\* rarefaction branch otherwise; for f(u) = u^2/2 (sigma = 1/2), ul = 1, ur = 0
\* is a shock and ul = 0, ur = 1 a rarefaction.
C9_Classification ==
    (last.op = "solve" /\ sigma # None /\ HasPrime(last.fx)) =>
        /\ err = "none" /\ ret = "u"
        /\ sol.fprime = last.fx
        /\ sol.branch = IF /\ RGt(ul, ur)
                           /\ RGt(PrimeAt(last.fx, ul), sigma)
                           /\ RLt(PrimeAt(last.fx, ur), sigma)
                        THEN "shock" ELSE "rarefaction"
        /\ (last.fx = "square_half" /\ sigma = Half /\ ul = R(1) /\ ur = R(0))
              => sol.branch = "shock"
        /\ (last.fx = "square_half" /\ sigma = Half /\ ul = R(0) /\ ur = R(1))
              => sol.branch = "rarefaction"

C9_Witness ==
    /\ last = [op |-> "solve", fx |-> "square_half"]
    /\ ul = R(1) /\ ur = R(0) /\ sigma = Half
    /\ sol = [branch |-> "shock", fprime |-> "square_half"]

\* C10: the solution function of a shock is u(t, x) = ul if (x - x0)/t < sigma
\* and ur otherwise (also when (x - x0)/t == sigma), for every t > 0 and x.
C10_ShockSolution ==
    sol.branch = "shock" =>
        \A t \in Ts, xx \in Xs :
            USol(sol, ul, ur, x0, sigma, t, xx) =
                Return(IF RLt(RDiv(RSub(xx, x0), t), sigma) THEN ul ELSE ur)

\* C11: the solution function of a jump that is not a shock, built with a
\* derivative f', is u(t, x) = ul if ratio < f'(ul), otherwise ur if
\* ratio > f'(ur), otherwise 0, with ratio = (x - x0)/t, for every t > 0 and x;
\* so its value is always one of ul, ur, 0.
C11_RarefactionSolution ==
    (sol.branch = "rarefaction" /\ HasPrime(sol.fprime)) =>
        \A t \in Ts, xx \in Xs :
            LET ratio == RDiv(RSub(xx, x0), t)
                v     == USol(sol, ul, ur, x0, sigma, t, xx)
            IN  /\ v = Return(IF RLt(ratio, PrimeAt(sol.fprime, ul)) THEN ul
                              ELSE IF RGt(ratio, PrimeAt(sol.fprime, ur)) THEN ur
                              ELSE R(0))
                /\ v.out \in {ul, ur, R(0)}

----------------------------------------------------------------------------
(* Properties of the Lax-Wendroff and Lax-Friedrichs formulas             *)
(* (checked under SpecSchemes)                                            *)

\* u_{i+1} - 0.5*r*(f(u_{i+2}) - f(u_i)) + 0.5*r^2*a*(f(u_{i+2}) - 2 f(u_{i+1}) + f(u_i))
\* for the stencil starting at (1-based) position i of array a0, local speed a
LWValue(a0, i, r, fx, a) ==
    RAdd(RSub(a0[i + 1],
              RMul(RMul(Half, r), RSub(FluxAt(fx, a0[i + 2]), FluxAt(fx, a0[i])))),
         RMul(RMul(RMul(Half, RMul(r, r)), a),
              RAdd(RSub(FluxAt(fx, a0[i + 2]), RMul(R(2), FluxAt(fx, a0[i + 1]))),
                   FluxAt(fx, a0[i]))))

LWDifferenceCall ==
    /\ call.sch = "LW_FD" /\ Len(prev) >= 3
    /\ HasPrime(call.fx) /\ ~IsZero(call.dx)

\* C12 (as stated): LW_FD returns, at every interior index, the Lax-Wendroff
\* value with the local speed a = f'((u_{i+2} + u_i)/2), the derivative at the
\* average of the two outer stencil points.
C12_LWDifferenceOuterAverage ==
    LWDifferenceCall =>
        /\ status = "none" /\ Len(u) = Len(prev) - 2
        /\ \A i \in 1..(Len(prev) - 2) :
              u[i] = LWValue(prev, i, RDiv(call.dt, call.dx), call.fx,
                             PrimeAt(call.fx, RMul(RAdd(prev[i + 2], prev[i]), Half)))

\* C12 (amended): LW_FD returns, at every interior index, the Lax-Wendroff
\* value with the local speed a = f'(u_{i+1}), the derivative at the middle
\* stencil point.
C12_LWDifferenceMiddlePoint ==
    LWDifferenceCall =>
        /\ status = "none" /\ Len(u) = Len(prev) - 2
        /\ \A i \in 1..(Len(prev) - 2) :
              u[i] = LWValue(prev, i, RDiv(call.dt, call.dx), call.fx,
                             PrimeAt(call.fx, prev[i + 1]))

\* u = [1, 2, 1], r = 1/2, f = u^2/2: 2 - 0 + 0.5 * 0.25 * f'(2) * (-3) = 5/4
C12_Witness ==
    /\ call = [sch |-> "LW_FD", dt |-> R(1), dx |-> R(2), fx |-> "square_half"]
    /\ prev = <<R(1), R(2), R(1)>>
    /\ status = "none"
    /\ u = << <<5, 4>> >>

\* C13: a Lax-Wendroff scheme called with a flux that has no derivative raises
\* (KeyError, on its first statement, before any arithmetic) and returns no
\* array, the state array staying as it was; a Lax-Friedrichs scheme called
\* with the same flux, an array of length >= 3 and positive dt, dx returns its
\* len(u) - 2 values.
C13_MissingDerivative ==
    (Called /\ ~HasPrime(call.fx)) =>
        /\ IsLW => (status = "KeyError" /\ u = prev)
        /\ (~IsLW /\ Len(prev) >= 3 /\ Pos(call.dt) /\ Pos(call.dx))
              => (status = "none" /\ Len(u) = Len(prev) - 2)

C13_Witness ==
    /\ call.sch = "LW_FV" /\ ~HasPrime(call.fx)
    /\ IsZero(call.dx) /\ Len(prev) >= 3
    /\ status = "KeyError" /\ u = prev

\* C15: for every array of length >= 3, nonzero dt and dx and every flux, LF_FV
\* and LF_FD return the same array, element by element
\* 0.5*(u_{i+2} + u_i) - 0.5*(dt/dx)*(f(u_{i+2}) - f(u_i)).
C15_LFFormsAgree ==
    (/\ call.sch \in {"LF_FD", "LF_FV"} /\ Len(prev) >= 3
     /\ ~IsZero(call.dt) /\ ~IsZero(call.dx))
       => /\ status = "none"
          /\ u = LF_FD(prev, call.dt, call.dx, call.fx).out
          /\ u = LF_FV(prev, call.dt, call.dx, call.fx).out
          /\ Len(u) = Len(prev) - 2
          /\ \A i \in 1..(Len(prev) - 2) :
                u[i] = RSub(RMul(Half, RAdd(prev[i + 2], prev[i])),
                            RMul(RMul(Half, RDiv(call.dt, call.dx)),
                                 RSub(FluxAt(call.fx, prev[i + 2]),
                                      FluxAt(call.fx, prev[i]))))

\* u = [1, 2, 2], r = 1/2, f = u^2/2: 0.5*3 - 0.25*(2 - 0.5) = 9/8
C15_Witness ==
    /\ call = [sch |-> "LF_FV", dt |-> R(1), dx |-> R(2), fx |-> "square_half"]
    /\ prev = <<R(1), R(2), R(2)>>
    /\ status = "none"
    /\ u = << <<9, 8>> >>

\* C16: for a linear flux f(u) = a*u, every array of length >= 3 and nonzero dt
\* and dx, LW_FV and LW_FD return the same array, element by element
\* u_{i+1} - 0.5*r*a*(u_{i+2} - u_i) + 0.5*r^2*a^2*(u_{i+2} - 2 u_{i+1} + u_i).
C16_LWFormsAgreeOnLinearFlux ==
    (/\ IsLW /\ IsLinearFlux(call.fx) /\ Len(prev) >= 3
     /\ ~IsZero(call.dt) /\ ~IsZero(call.dx))
       => /\ status = "none"
          /\ u = LW_FD(prev, call.dt, call.dx, call.fx).out
          /\ u = LW_FV(prev, call.dt, call.dx, call.fx).out
          /\ Len(u) = Len(prev) - 2
          /\ \A i \in 1..(Len(prev) - 2) :
                LET r == RDiv(call.dt, call.dx)
                    a == LinearScalar(call.fx)
                IN  u[i] = RAdd(RSub(prev[i + 1],
                                     RMul(RMul(RMul(Half, r), a),
                                          RSub(prev[i + 2], prev[i]))),
                                RMul(RMul(RMul(Half, RMul(r, r)), RMul(a, a)),
                                     RAdd(RSub(prev[i + 2], RMul(R(2), prev[i + 1])),
                                          prev[i])))

\* u = [1, 2, 1], r = 1/2, a = 5/2: 2 - 0 + 0.5*0.25*6.25*(-2) = 7/16
C16_Witness ==
    /\ call = [sch |-> "LW_FV", dt |-> R(1), dx |-> R(2), fx |-> "linear5_2"]
    /\ prev = <<R(1), R(2), R(1)>>
    /\ status = "none"
    /\ u = << <<7, 16>> >>

----------------------------------------------------------------------------
(* Properties of getExactSolution (checked under SpecExact) *)

\* C14: for a flux flagged isLinear, of speed a, and every initial condition
\* u0 (also one flagged canBeRiemannProblem), getExactSolution returns the
\* function u(t, x) = u0(x - a*t) and builds no RiemannProblem; a is what
\* flux(1) gives.
C14_LinearExactSolution ==
    /\ [](IsLinearFlux(exact.fx) =>
            /\ exact.kind = "linear"
            /\ FluxAt(exact.fx, R(1)) = LinearScalar(exact.fx)
            /\ obs # NoObs =>
                  obs.val = Return(InitialAt(exact.init,
                                             RSub(obs.x, RMul(LinearScalar(exact.fx), obs.t)))))
    /\ [][(obs' = NoObs /\ IsLinearFlux(exact'.fx)) => UNCHANGED riemannVars]_vars

\* u0 = the step 1 -> 0 at 0, f(u) = 5u/2: u(1, 2) = u0(-1/2) = 1
C14_Witness ==
    /\ exact = [kind |-> "linear", init |-> "step10_0", fx |-> "linear5_2"]
    /\ obs = [t |-> R(1), x |-> R(2), val |-> Return(R(1))]
    /\ last = NoObject

====
